---- MODULE Spec2Model ----
(***************************************************************************)
(* A model of snowpack's import-resolution and plugin-pipeline code:        *)
(*   src/src/commands/import-resolver.ts  getMountedDirs,                   *)
(*                                        createImportResolver, urlToFile   *)
(*   src/src/plugins.ts                   loadPlugins,                      *)
(*                                        createPluginExtensionMap          *)
(*                                                                         *)
(* JavaScript strings are sequences of one-character strings, so that the   *)
(* regular expressions, String.split, path.posix.* and path.extname are     *)
(* computed character by character.                                         *)
(***************************************************************************)
EXTENDS Integers, Sequences, FiniteSets, TLC

VARIABLES
    opts,        \* the ImportResolverOptions createImportResolver closed over
    lastSpec,    \* the specifier of the last importResolver(spec) call
    resolved,    \* what that call produced
    mountedDirs, \* getMountedDirs: the table built so far, in insertion order
    mountPc,     \* getMountedDirs: "loop", "returned" or "exited" (process.exit)
    script,      \* getMountedDirs: the [id, cmd] entry of config.scripts last iterated
    seenIds,     \* getMountedDirs: the script ids iterated so far
    scriptPool,  \* getMountedDirs: which commands config.scripts is drawn from
    mountError,  \* getMountedDirs: the message handleError printed
    mountResult, \* getMountedDirs: the table returned to the caller
    extMap,      \* createPluginExtensionMap: the ExtensionMap built so far
    declared,    \* the <<input, output>> extension pairs of the plugins iterated so far
    shapes,      \* the shapes ("string", "array") their input and output had
    pluginCount, \* the number of plugins iterated so far
    urlCall,     \* urlToFile: the url, the Mount Table, the plugins and the files on disk
    urlResult,   \* urlToFile: {locOnDisk, lookups} as returned, or the exception thrown
    loadPc,      \* loadPlugins: "scripts", "plugins", "returned", "exited" or "threw"
    loadConfig,  \* loadPlugins: config.scripts and config.plugins, and the global `name`
    scriptIndex, \* loadPlugins: the number of config.scripts entries iterated
    refIndex,    \* loadPlugins: the number of config.plugins entries iterated
    scriptPlugins, \* loadPlugins: the plugins loaded from build:* scripts, by name
    plugins,     \* loadPlugins: the plugin list
    bundler,     \* loadPlugins: the bundler
    runCommands, \* loadPlugins: the run:* scripts
    buildCommands, \* loadPlugins: the raw build commands, by extension
    loadError    \* loadPlugins: the message handleError printed, or the exception thrown

resolverVars == <<opts, lastSpec, resolved>>

mountVars == <<mountedDirs, mountPc, script, seenIds, scriptPool, mountError, mountResult>>

extVars == <<extMap, declared, shapes, pluginCount>>

urlVars == <<urlCall, urlResult>>

loadVars == <<loadPc, loadConfig, scriptIndex, refIndex, scriptPlugins, plugins, bundler,
              runCommands, buildCommands, loadError>>

vars == <<resolverVars, mountVars, extVars, urlVars, loadVars>>

(***************************************************************************)
(* Strings                                                                 *)
(***************************************************************************)
EmptyStr == <<>>

StartsWith(s, p) == Len(s) >= Len(p) /\ SubSeq(s, 1, Len(p)) = p

EndsWith(s, p) == Len(s) >= Len(p) /\ SubSeq(s, Len(s) - Len(p) + 1, Len(s)) = p

Drop(s, n) == SubSeq(s, n + 1, Len(s))

Last(s) == s[Len(s)]

Contains(s, c) == \E i \in 1..Len(s) : s[i] = c

FirstIndexOf(s, c) == CHOOSE i \in 1..Len(s) : s[i] = c /\ \A j \in 1..(i - 1) : s[j] # c

LastIndexOf(s, c) == CHOOSE i \in 1..Len(s) : s[i] = c /\ \A j \in (i + 1)..Len(s) : s[j] # c

\* s.split(c) for a one-character separator c
RECURSIVE SplitOn(_, _)
SplitOn(s, c) ==
    IF ~Contains(s, c) THEN <<s>>
    ELSE LET i == FirstIndexOf(s, c)
         IN  <<SubSeq(s, 1, i - 1)>> \o SplitOn(Drop(s, i), c)

\* parts.join(sep)
RECURSIVE JoinWith(_, _)
JoinWith(parts, sep) ==
    IF Len(parts) = 0 THEN EmptyStr
    ELSE IF Len(parts) = 1 THEN parts[1]
    ELSE parts[1] \o sep \o JoinWith(Tail(parts), sep)

\* the characters of the model's alphabet that the regular expression class \w rejects
NonWordChars == {"/", ":", ".", " ", "-", "=", ","}

IsWordChar(c) == c \notin NonWordChars

(***************************************************************************)
(* Node's path module (posix)                                              *)
(***************************************************************************)
\* normalizeString: drops "" and "." segments and resolves ".." segments
RECURSIVE NormalizeSegments(_, _, _)
NormalizeSegments(segs, res, allowAboveRoot) ==
    IF Len(segs) = 0 THEN res
    ELSE LET seg == Head(segs)
             rest == Tail(segs)
         IN  IF seg = EmptyStr \/ seg = <<".">>
                 THEN NormalizeSegments(rest, res, allowAboveRoot)
             ELSE IF seg = <<".", ".">>
                 THEN IF Len(res) > 0 /\ Last(res) # <<".", ".">>
                          THEN NormalizeSegments(rest, SubSeq(res, 1, Len(res) - 1), allowAboveRoot)
                      ELSE IF allowAboveRoot
                          THEN NormalizeSegments(rest, Append(res, seg), allowAboveRoot)
                      ELSE NormalizeSegments(rest, res, allowAboveRoot)
             ELSE NormalizeSegments(rest, Append(res, seg), allowAboveRoot)

NormalizeString(p, allowAboveRoot) ==
    JoinWith(NormalizeSegments(SplitOn(p, "/"), <<>>, allowAboveRoot), <<"/">>)

\* path.posix.normalize(p)
PosixNormalize(p) ==
    IF Len(p) = 0 THEN <<".">>
    ELSE LET isAbsolute == p[1] = "/"
             trailingSeparator == Last(p) = "/"
             n == NormalizeString(p, ~isAbsolute)
         IN  IF Len(n) = 0
                 THEN IF isAbsolute THEN <<"/">>
                      ELSE IF trailingSeparator THEN <<".", "/">> ELSE <<".">>
             ELSE LET t == IF trailingSeparator THEN n \o <<"/">> ELSE n
                  IN  IF isAbsolute THEN <<"/">> \o t ELSE t

\* path.posix.join(...args): the non-empty arguments joined by "/", normalized
PosixJoin(args) ==
    LET nonEmpty == SelectSeq(args, LAMBDA a : Len(a) > 0)
    IN  IF Len(nonEmpty) = 0 THEN <<".">>
        ELSE PosixNormalize(JoinWith(nonEmpty, <<"/">>))

\* the right-to-left scan of path.posix.resolve: prepend arguments until one is absolute
RECURSIVE ResolveScan(_, _)
ResolveScan(args, acc) ==
    IF Len(args) = 0 \/ (Len(acc) > 0 /\ acc[1] = "/") THEN acc
    ELSE LET p == Last(args)
             front == SubSeq(args, 1, Len(args) - 1)
         IN  IF Len(p) = 0 THEN ResolveScan(front, acc)
             ELSE ResolveScan(front, p \o <<"/">> \o acc)

\* path.posix.resolve(...args) in a process whose working directory is cwd
PosixResolve(args, cwd) ==
    LET scanned == ResolveScan(<<cwd>> \o args, EmptyStr)
        isAbsolute == Len(scanned) > 0 /\ scanned[1] = "/"
        n == NormalizeString(scanned, ~isAbsolute)
    IN  IF isAbsolute THEN <<"/">> \o n
        ELSE IF Len(n) > 0 THEN n ELSE <<".">>

\* path.extname(p)
ExtName(p) ==
    LET trimmed == IF \E i \in 1..Len(p) : p[i] # "/"
                       THEN SubSeq(p, 1, CHOOSE i \in 1..Len(p) :
                                p[i] # "/" /\ \A j \in (i + 1)..Len(p) : p[j] = "/")
                   ELSE EmptyStr
        base == IF Contains(trimmed, "/")
                    THEN Drop(trimmed, LastIndexOf(trimmed, "/"))
                ELSE trimmed
    IN  IF ~Contains(base, ".") THEN EmptyStr
        ELSE LET d == LastIndexOf(base, ".")
             IN  IF d = 1 \/ base = <<".", ".">> THEN EmptyStr
                 ELSE Drop(base, d - 1)

(***************************************************************************)
(* createImportResolver (import-resolver.ts)                               *)
(***************************************************************************)
Null == [kind |-> "null"]

Undefined == [kind |-> "undefined"]

\* the number of leading \w characters of s
LeadingWordChars(s) ==
    IF \E i \in 1..Len(s) : ~IsWordChar(s[i])
        THEN (CHOOSE i \in 1..Len(s) :
                 ~IsWordChar(s[i]) /\ \A j \in 1..(i - 1) : IsWordChar(s[j])) - 1
    ELSE Len(s)

\* /^\w+:\/\//: the protocol-relative form "//host" is not recognised
URL_HAS_PROTOCOL_REGEX_SchemeOnly(s) ==
    LET k == LeadingWordChars(s)
    IN  IF k >= 1 /\ StartsWith(Drop(s, k), <<":", "/", "/">>) THEN k + 3 ELSE 0

\* the length of the prefix of s that /^(\w+:)?\/\// matches; 0 when it does not match
URL_HAS_PROTOCOL_REGEX(s) ==
    LET k == LeadingWordChars(s)
    IN  IF StartsWith(s, <<"/", "/">>) THEN 2
        ELSE IF k >= 1 /\ StartsWith(Drop(s, k), <<":", "/", "/">>) THEN k + 3
        ELSE 0

\* process.cwd()
ProcessCwd == <<"/", "p">>

\* The source never binds matchedDir (line 74 computes cwd and nothing reads it).
\* It is modelled as the specification describes it: the Mount Table entry whose
\* disk prefix is a path-ancestor of the current file, or null.
MatchedDir(fileLoc, mounts) ==
    IF \E i \in 1..Len(mounts) : StartsWith(fileLoc, mounts[i].fromDisk)
        THEN mounts[CHOOSE i \in 1..Len(mounts) :
                 /\ StartsWith(fileLoc, mounts[i].fromDisk)
                 /\ \A j \in 1..(i - 1) : ~StartsWith(fileLoc, mounts[j].fromDisk)]
    ELSE Null

\* resolveSourceSpecifier is called and not defined in the source: modelled from the
\* specification (".js" is appended to an extensionless specifier, a specifier with
\* an extension is left untouched).
ResolveSourceSpecifier(spec, isBundled) ==
    IF ExtName(spec) = EmptyStr THEN spec \o <<".", "j", "s">> ELSE spec

Str(v) == [kind |-> "string", value |-> v]

Threw(e) == [kind |-> e, value |-> EmptyStr]

\* lines 76-81. `const spec = resolveSourceSpecifier(spec, isBundled)` reads the block's
\* own `spec` in its initializer and line 79 assigns to that const: with block scoping
\* kept (ES2015 output) the read throws a ReferenceError; compiled down to `var`, the
\* function is handed undefined in place of the specifier and a string method is
\* called on it (TypeError). Either outcome is possible, none returns a URL.
MountedRewrite(spec, matchedDir, isBundled) ==
    {Threw("ReferenceError"), Threw("TypeError")}

\* line 82
IsPathLike(spec) ==
    \/ StartsWith(spec, <<"/">>)
    \/ StartsWith(spec, <<".", "/">>)
    \/ StartsWith(spec, <<".", ".", "/">>)

\* dependencyImportMap.imports[spec]
ImportsLookup(map, spec) ==
    IF spec \in DOMAIN map.imports THEN Str(map.imports[spec]) ELSE Undefined

Truthy(v) == v.kind = "string" /\ v.value # EmptyStr

\* `if (dependencyImportMap)`: the entry itself is not tested
HasImportMapEntry_MapOnly(map, spec) ==
    map # Null /\ map # Undefined

\* line 86: dependencyImportMap && dependencyImportMap.imports[spec]
HasImportMapEntry(map, spec) ==
    map # Null /\ map # Undefined /\ Truthy(ImportsLookup(map, spec))

\* the whole base URL, protocol included, handed to path.posix.join
JoinedImport_JoinsProtocol(o, mapped) ==
    IF o.isDev
        THEN PosixResolve(<<o.webModulesPath, mapped>>, ProcessCwd)
    ELSE PosixJoin(<<o.baseUrl, o.webModulesPath, mapped>>)

\* lines 88-98 for a mapped path (a string)
JoinedImport(o, mapped) ==
    LET n == URL_HAS_PROTOCOL_REGEX(o.baseUrl)
        protocol == SubSeq(o.baseUrl, 1, n)
        baseUrl == Drop(o.baseUrl, n)
    IN  IF o.isDev
            THEN PosixResolve(<<o.webModulesPath, mapped>>, ProcessCwd)
        ELSE protocol \o PosixJoin(<<baseUrl, o.webModulesPath, mapped>>)

\* the suffix test without `!isBundled`
ProxySuffix_IgnoresBundled(resolvedImport, isBundled) ==
    LET extName == ExtName(resolvedImport)
    IN  IF extName # EmptyStr /\ extName # <<".", "j", "s">>
            THEN resolvedImport \o <<".", "p", "r", "o", "x", "y", ".", "j", "s">>
        ELSE resolvedImport

\* lines 99-102
ProxySuffix(resolvedImport, isBundled) ==
    LET extName == ExtName(resolvedImport)
    IN  IF ~isBundled /\ extName # EmptyStr /\ extName # <<".", "j", "s">>
            THEN resolvedImport \o <<".", "p", "r", "o", "x", "y", ".", "j", "s">>
        ELSE resolvedImport

\* lines 87-103; path.posix.resolve and path.posix.join throw a TypeError when an
\* argument is not a string
ResolveFromImportMap(spec, o) ==
    LET mapped == ImportsLookup(o.dependencyImportMap, spec)
    IN  IF mapped.kind # "string" THEN Threw("TypeError")
        ELSE Str(ProxySuffix(JoinedImport(o, mapped.value), o.isBundled))

\* the import map looked up before the path-like test
ImportResolver_MapFirst(spec, o) ==
    IF URL_HAS_PROTOCOL_REGEX(spec) > 0
        THEN {[res |-> Str(spec), rule |-> "protocol", consulted |-> FALSE]}
    ELSE IF MatchedDir(o.fileLoc, o.mountedDirs) # Null
        THEN {[res |-> r, rule |-> "mount", consulted |-> FALSE] :
                r \in MountedRewrite(spec, MatchedDir(o.fileLoc, o.mountedDirs), o.isBundled)}
    ELSE IF HasImportMapEntry(o.dependencyImportMap, spec)
        THEN {[res |-> ResolveFromImportMap(spec, o), rule |-> "importmap",
               consulted |-> TRUE]}
    ELSE IF IsPathLike(spec)
        THEN {[res |-> Str(ResolveSourceSpecifier(spec, o.isBundled)),
               rule |-> "path", consulted |-> TRUE]}
    ELSE {[res |-> [kind |-> "false", value |-> EmptyStr], rule |-> "none",
           consulted |-> TRUE]}

\* importResolver(spec), lines 69-106: the set of outcomes of one call, each with the
\* rule that produced it and whether the import map was read
ImportResolver(spec, o) ==
    IF URL_HAS_PROTOCOL_REGEX(spec) > 0
        THEN {[res |-> Str(spec), rule |-> "protocol", consulted |-> FALSE]}
    ELSE IF MatchedDir(o.fileLoc, o.mountedDirs) # Null
        THEN {[res |-> r, rule |-> "mount", consulted |-> FALSE] :
                r \in MountedRewrite(spec, MatchedDir(o.fileLoc, o.mountedDirs), o.isBundled)}
    ELSE IF IsPathLike(spec)
        THEN {[res |-> Str(ResolveSourceSpecifier(spec, o.isBundled)),
               rule |-> "path", consulted |-> FALSE]}
    ELSE IF HasImportMapEntry(o.dependencyImportMap, spec)
        THEN {[res |-> ResolveFromImportMap(spec, o), rule |-> "importmap",
               consulted |-> TRUE]}
    ELSE {[res |-> [kind |-> "false", value |-> EmptyStr], rule |-> "none",
           consulted |-> TRUE]}

(***************************************************************************)
(* The resolver's inputs                                                   *)
(***************************************************************************)
MaxSpecLen == 4

SpecAlphabet == {"a", ":", "/", "."}

\* every specifier of at most MaxSpecLen characters: "a", "./a", "../", "/a", "//a",
\* "a://", "a:/", "a.a", ...
Specifiers == UNION {[1..n -> SpecAlphabet] : n \in 0..MaxSpecLen}

\* mapped paths: with extension ".js", with another extension, without extension,
\* and a dot-file (no extension for path.extname)
MappedPaths ==
    {<<"a", ".", "j", "s">>, <<"b", ".", "c", "s", "s">>, <<"c">>,
     <<"d", "/", ".", "c", "s", "s">>}

\* keys of the import maps: a bare name, a path-like string and two strings with a
\* protocol prefix
MapKeys == {<<"a">>, <<".", "/", "a">>, <<"a", ":", "/", "/">>, <<"/", "/", "a">>}

ImportMaps ==
    {Null, Undefined, [kind |-> "map", imports |-> <<>>]}
        \cup {[kind |-> "map", imports |-> [k \in MapKeys |-> m]] : m \in MappedPaths}

BaseUrls ==
    {<<"/">>, <<"/", "b", "/">>, <<"h", ":", "/", "/", "c", "/", "b">>, <<"/", "/", "c">>}

WebModulesPaths == {<<"/", "w">>, <<"w">>}

\* one Mount Table, and a file under its disk prefix and one outside it
ResolverMounts == <<[fromDisk |-> <<"s", "/">>, toUrl |-> <<"/", "d", "/">>]>>

FileLocs == {<<"s", "/", "f">>, <<"o", "/", "f">>}

ResolverOptions ==
    [fileLoc : FileLocs, webModulesPath : WebModulesPaths,
     dependencyImportMap : ImportMaps, isDev : BOOLEAN, isBundled : BOOLEAN,
     baseUrl : BaseUrls, mountedDirs : {ResolverMounts}]

\* getMountedDirs is not running
MountIdle ==
    /\ mountedDirs = <<>>
    /\ mountPc = "idle"
    /\ script = Undefined
    /\ seenIds = {}
    /\ scriptPool = "none"
    /\ mountError = Undefined
    /\ mountResult = Undefined

\* createPluginExtensionMap is not running
ExtIdle ==
    /\ extMap = Undefined
    /\ declared = {}
    /\ shapes = {}
    /\ pluginCount = 0

\* urlToFile is not running
UrlIdle ==
    /\ urlCall = Undefined
    /\ urlResult = Undefined

\* loadPlugins is not running
LoadIdle ==
    /\ loadPc = "idle"
    /\ loadConfig = Undefined
    /\ scriptIndex = 0
    /\ refIndex = 0
    /\ scriptPlugins = <<>>
    /\ plugins = <<>>
    /\ bundler = Undefined
    /\ runCommands = <<>>
    /\ buildCommands = <<>>
    /\ loadError = Undefined

NotCalled == [res |-> Undefined, rule |-> "", consulted |-> FALSE]

\* createImportResolver(options): the resolver exists, nothing is resolved yet
InitResolve ==
    /\ opts \in ResolverOptions
    /\ lastSpec = EmptyStr
    /\ resolved = NotCalled
    /\ MountIdle
    /\ ExtIdle
    /\ UrlIdle
    /\ LoadIdle

\* importResolver(spec). The function reads its closure and writes nothing, so a call
\* does not depend on the calls before it: one call per resolver reaches every state
\* that any number of calls reaches.
CallImportResolver ==
    /\ resolved = NotCalled
    /\ \E spec \in Specifiers :
           \E r \in ImportResolver(spec, opts) :
               /\ lastSpec' = spec
               /\ resolved' = r
               /\ UNCHANGED <<opts, mountVars, extVars, urlVars, loadVars>>

NextResolve == CallImportResolver

SpecResolve == InitResolve /\ [][NextResolve]_vars

(***************************************************************************)
(* Claims about the import resolver (checked under SpecResolve)            *)
(***************************************************************************)
\* `scheme://` or `//` at the start of s
HasProtocolPrefix(s) ==
    \/ StartsWith(s, <<"/", "/">>)
    \/ \E k \in 1..Len(s) :
           /\ \A j \in 1..k : IsWordChar(s[j])
           /\ StartsWith(Drop(s, k), <<":", "/", "/">>)

Called == resolved # NotCalled

\* the current file lies under the disk prefix of a Mount Table entry
FileUnderMount ==
    \E i \in 1..Len(opts.mountedDirs) : StartsWith(opts.fileLoc, opts.mountedDirs[i].fromDisk)

MapHasEntry(s) ==
    /\ opts.dependencyImportMap.kind = "map"
    /\ s \in DOMAIN opts.dependencyImportMap.imports

\* a call with a bare specifier for which no mount applies
BareCall ==
    /\ Called
    /\ ~HasProtocolPrefix(lastSpec)
    /\ ~FileUnderMount
    /\ ~IsPathLike(lastSpec)

ProxyJs == <<".", "p", "r", "o", "x", "y", ".", "j", "s">>

\* C1: a specifier with a protocol prefix is returned unchanged, whatever the mount
\* table, the import map (an entry for that very string included), isDev and
\* isBundled are, and the import map is not read for it.
C1_ProtocolPassthrough ==
    (Called /\ HasProtocolPrefix(lastSpec))
        => (resolved.res = Str(lastSpec) /\ ~resolved.consulted)

\* a specifier with a scheme, in a file under a mount, with an import map that has an
\* entry for that exact string
C1_Witness ==
    /\ Called
    /\ lastSpec = <<"a", ":", "/", "/">>
    /\ FileUnderMount
    /\ MapHasEntry(lastSpec)
    /\ resolved.res = Str(lastSpec)

\* s.replace(pat, rep) for a string pattern: the first occurrence is replaced
ReplaceFirst(s, pat, rep) ==
    IF \E i \in 1..(Len(s) - Len(pat) + 1) : SubSeq(s, i, i + Len(pat) - 1) = pat
        THEN LET i == CHOOSE i \in 1..(Len(s) - Len(pat) + 1) :
                        /\ SubSeq(s, i, i + Len(pat) - 1) = pat
                        /\ \A j \in 1..(i - 1) : SubSeq(s, j, j + Len(pat) - 1) # pat
             IN  SubSeq(s, 1, i - 1) \o rep \o Drop(s, i + Len(pat) - 1)
    ELSE s

\* C2: in a file under the disk prefix of a mount entry, a specifier without protocol
\* prefix resolves to the specifier rewritten by the source-extension rules with the
\* matched disk prefix replaced by the entry's URL prefix.
C2_MountedRewrite ==
    (Called /\ ~HasProtocolPrefix(lastSpec) /\ FileUnderMount)
        => LET m == MatchedDir(opts.fileLoc, opts.mountedDirs)
           IN  resolved.res =
                   Str(ReplaceFirst(ResolveSourceSpecifier(lastSpec, opts.isBundled),
                                    m.fromDisk, m.toUrl))

W_mount == <<"m", "o", "u", "n", "t">>

W_to == <<"-", "-", "t", "o">>

Digits == {"0", "1", "2", "3", "4", "5", "6", "7", "8", "9"}

\* cmd.split(/\s+/): the pieces between maximal runs of spaces; a leading or trailing
\* run leaves an empty first or last piece
RECURSIVE SplitWhitespace(_)
SplitWhitespace(s) ==
    IF ~Contains(s, " ") THEN <<s>>
    ELSE LET i == FirstIndexOf(s, " ")
             rest == Drop(s, i)
             k == IF \E j \in 1..Len(rest) : rest[j] # " "
                      THEN (CHOOSE j \in 1..Len(rest) :
                               rest[j] # " " /\ \A h \in 1..(j - 1) : rest[h] = " ") - 1
                  ELSE Len(rest)
         IN  <<SubSeq(s, 1, i - 1)>> \o SplitWhitespace(Drop(rest, k))

\* yargs-parser's isNumber, for unsigned integers
IsNumber(t) ==
    /\ Len(t) > 0
    /\ \A i \in 1..Len(t) : t[i] \in Digits
    /\ ~(Len(t) > 1 /\ t[1] = "0")

\* yargs-parser's number coercion of an option value
Coerce(t) ==
    IF IsNumber(t) THEN [t |-> "number", s |-> t] ELSE [t |-> "string", s |-> t]

\* yargs-parser over the tokens from index i on. `to` is the list of values given to
\* the option "to" (none: undefined, one: that value, several: an array), n the
\* length of `_`. The tokens of the inputs are long options ("--key", "--key=value"),
\* the terminator "--" and positional arguments.
RECURSIVE Yargs(_, _, _, _)
Yargs(args, i, to, n) ==
    IF i > Len(args) THEN [to |-> to, positionals |-> n]
    ELSE LET arg == args[i]
         IN  IF arg = <<"-", "-">>
                 THEN [to |-> to, positionals |-> n + (Len(args) - i)]
             ELSE IF StartsWith(arg, <<"-", "-">>)
                 THEN LET body == Drop(arg, 2)
                      IN  IF Contains(body, "=") /\ FirstIndexOf(body, "=") > 1
                              THEN LET e == FirstIndexOf(body, "=")
                                   IN  Yargs(args, i + 1,
                                             IF SubSeq(body, 1, e - 1) = <<"t", "o">>
                                                 THEN Append(to, Coerce(Drop(body, e)))
                                             ELSE to,
                                             n)
                          ELSE IF i < Len(args) /\ ~StartsWith(args[i + 1], <<"-">>)
                              THEN Yargs(args, i + 2,
                                         IF arg = W_to THEN Append(to, Coerce(args[i + 1]))
                                         ELSE to,
                                         n)
                          ELSE Yargs(args, i + 1,
                                     IF arg = W_to THEN Append(to, [t |-> "true", s |-> EmptyStr])
                                     ELSE to,
                                     n)
             ELSE Yargs(args, i + 1, to, n + 1)

\* the truthiness of `to` (line 41, line 45)
ToIsTruthy(to) ==
    IF Len(to) = 0 THEN FALSE
    ELSE IF Len(to) > 1 THEN TRUE
    ELSE IF to[1].t = "true" THEN TRUE
    ELSE IF to[1].t = "number" THEN to[1].s # <<"0">>
    ELSE to[1].s # EmptyStr

\* to[0] !== '/' (line 41): the first character of a string, the first element of an
\* array, undefined for true and for a number
ToFirstIsNotSlash(to) ==
    IF Len(to) > 1 THEN ~(to[1].t = "string" /\ to[1].s = <<"/">>)
    ELSE IF to[1].t = "string" THEN to[1].s[1] # "/"
    ELSE TRUE

ScalarToString(v) == IF v.t = "true" THEN <<"t", "r", "u", "e">> ELSE v.s

\* `to` in a string concatenation: an array is joined with ","
ToToString(to) ==
    JoinWith([i \in 1..Len(to) |-> ScalarToString(to[i])], <<",">>)

\* mountedDirs[fromDisk] = toUrl: a new key goes last, an old key keeps its place
SetMount(table, fromDisk, toUrl) ==
    IF \E i \in 1..Len(table) : table[i].fromDisk = fromDisk
        THEN [i \in 1..Len(table) |->
                 IF table[i].fromDisk = fromDisk
                     THEN [fromDisk |-> fromDisk, toUrl |-> toUrl]
                 ELSE table[i]]
    ELSE Append(table, [fromDisk |-> fromDisk, toUrl |-> toUrl])

\* the body of the loop (lines 28-50) for one [id, cmd]: the error handleError
\* reports (process.exit), or the table after the entry
MountEntry(table, id, cmd) ==
    IF ~StartsWith(id, W_mount \o <<":">>)
        THEN [exit |-> FALSE, table |-> table]
    ELSE LET cmdArr == SplitWhitespace(cmd)
             args == Tail(cmdArr)
             parsed == Yargs(args, 1, <<>>, 0)
             to == parsed.to
         IN  IF cmdArr[1] # W_mount
                 THEN [exit |-> TRUE, id |-> id, msg |-> "must use the mount command"]
             ELSE IF parsed.positionals # 1
                 THEN [exit |-> TRUE, id |-> id,
                       msg |-> "must use the format: \"mount dir [--to /PATH]\""]
             ELSE IF ToIsTruthy(to) /\ ToFirstIsNotSlash(to)
                 THEN [exit |-> TRUE, id |-> id,
                       msg |-> "must be a URL path, and start with a \"/\""]
             ELSE LET dirDisk == args[1]
                      dirUrl == IF ToIsTruthy(to) THEN ToToString(to)
                                ELSE <<"/">> \o args[1]
                      fromDisk == PosixNormalize(dirDisk \o <<"/">>)
                      toUrl == PosixNormalize(dirUrl \o <<"/">>)
                  IN  [exit |-> FALSE, table |-> SetMount(table, fromDisk, toUrl)]

(***************************************************************************)
(* The inputs of getMountedDirs                                            *)
(***************************************************************************)
MaxScripts == 2

MaxArgs == 3

\* script ids: two mount scripts and a script of another kind
ScriptIds ==
    {W_mount \o <<":", "a">>, W_mount \o <<":", "b">>, <<"r", "u", "n", ":", "x">>}

\* the command name and another one
Verbs == {W_mount, <<"p", "r", "o", "x", "y">>}

\* "src", "--to", "/_dist", "dist", "--to=/x"
ArgVocab ==
    {<<"s", "r", "c">>, W_to, <<"/", "_", "d", "i", "s", "t">>, <<"d", "i", "s", "t">>,
     W_to \o <<"=", "/", "x">>}

ArgLists(maxLen) == UNION {[1..n -> ArgVocab] : n \in 0..maxLen}

\* every verb followed by every argument list, separated by single spaces, and three
\* commands with other whitespace: " mount src", "mount  src", "mount src "
Commands ==
    {JoinWith(<<v>> \o a, <<" ">>) : v \in Verbs, a \in ArgLists(MaxArgs)}
        \cup {<<" ">> \o W_mount \o <<" ", "s", "r", "c">>,
              W_mount \o <<" ", " ", "s", "r", "c">>,
              W_mount \o <<" ", "s", "r", "c", " ">>}

\* the same, and mount commands that end in "--to 0", a value that yargs-parser
\* reads as the number 0
NumericCommands ==
    Commands \cup {JoinWith(<<W_mount>> \o a \o <<W_to, <<"0">>>>, <<" ">>) :
                      a \in ArgLists(MaxArgs - 2)}

ResolverIdle ==
    /\ opts = Undefined
    /\ lastSpec = EmptyStr
    /\ resolved = Undefined

\* getMountedDirs(config) entered: line 25
MountEntered ==
    /\ mountedDirs = <<>>
    /\ mountPc = "loop"
    /\ script = Undefined
    /\ seenIds = {}
    /\ mountError = Undefined
    /\ mountResult = Undefined
    /\ ResolverIdle
    /\ ExtIdle
    /\ UrlIdle
    /\ LoadIdle

PoolOf(pool) == IF pool = "numeric" THEN NumericCommands ELSE Commands

InitMount == MountEntered /\ scriptPool = "plain"

InitMountNumeric == MountEntered /\ scriptPool = "numeric"

\* one iteration of `for (const [id, cmd] of Object.entries(config.scripts))`
MountIterate ==
    /\ mountPc = "loop"
    /\ Cardinality(seenIds) < MaxScripts
    /\ \E id \in ScriptIds \ seenIds, cmd \in PoolOf(scriptPool) :
           LET r == MountEntry(mountedDirs, id, cmd)
           IN  /\ script' = [id |-> id, cmd |-> cmd]
               /\ seenIds' = seenIds \cup {id}
               /\ IF r.exit
                      THEN /\ mountPc' = "exited"
                           /\ mountError' = [id |-> r.id, msg |-> r.msg]
                           /\ UNCHANGED mountedDirs
                  ELSE /\ mountedDirs' = r.table
                       /\ UNCHANGED <<mountPc, mountError>>
               /\ UNCHANGED <<mountResult, scriptPool, resolverVars, extVars, urlVars, loadVars>>

\* line 53: the loop is over, the table is returned
MountReturn ==
    /\ mountPc = "loop"
    /\ mountPc' = "returned"
    /\ mountResult' = mountedDirs
    /\ UNCHANGED <<mountedDirs, script, seenIds, scriptPool, mountError, resolverVars, extVars,
                   urlVars, loadVars>>

NextMount == MountIterate \/ MountReturn

SpecMount == InitMount /\ [][NextMount]_vars

SpecMountNumeric == InitMountNumeric /\ [][NextMount]_vars

(***************************************************************************)
(* createPluginExtensionMap (plugins.ts)                                   *)
(***************************************************************************)
Range(f) == {f[i] : i \in DOMAIN f}

\* Array.isArray(x) ? x : [x]
AsArray(v) == IF v.isArray THEN v.list ELSE <<v.value>>

\* [...new Set(list)]: the first occurrence of every element, in order
RECURSIVE Unique(_, _)
Unique(list, acc) ==
    IF Len(list) = 0 THEN acc
    ELSE Unique(Tail(list), IF Head(list) \in Range(acc) THEN acc ELSE Append(acc, Head(list)))

\* the list is set only when the key is created
AddOutputs_OnlyWhenNew(map, ext, outputs) ==
    IF ext \in DOMAIN map THEN map
    ELSE [k \in DOMAIN map \cup {ext} |-> IF k = ext THEN Unique(outputs, <<>>) ELSE map[k]]

\* lines 172-173: extMap.input[ext], created empty, united with the outputs
AddOutputs(map, ext, outputs) ==
    LET old == IF ext \in DOMAIN map THEN map[ext] ELSE <<>>
    IN  [k \in DOMAIN map \cup {ext} |->
            IF k = ext THEN Unique(old \o outputs, <<>>) ELSE map[k]]

\* the list of a new key starts empty, as on the input side
AddInputs_EmptySeed(map, ext, inputs) ==
    LET old == IF ext \in DOMAIN map THEN map[ext] ELSE <<>>
    IN  [k \in DOMAIN map \cup {ext} |->
            IF k = ext THEN Unique(old \o inputs, <<>>) ELSE map[k]]

\* lines 178-179: extMap.output[ext], created as [ext], united with the inputs
AddInputs(map, ext, inputs) ==
    LET old == IF ext \in DOMAIN map THEN map[ext] ELSE <<ext>>
    IN  [k \in DOMAIN map \cup {ext} |->
            IF k = ext THEN Unique(old \o inputs, <<>>) ELSE map[k]]

\* inputs.forEach (lines 171-174)
RECURSIVE ForEachInput(_, _, _)
ForEachInput(map, inputs, outputs) ==
    IF Len(inputs) = 0 THEN map
    ELSE ForEachInput(AddOutputs(map, Head(inputs), outputs), Tail(inputs), outputs)

\* outputs.forEach (lines 177-180)
RECURSIVE ForEachOutput(_, _, _)
ForEachOutput(map, outputs, inputs) ==
    IF Len(outputs) = 0 THEN map
    ELSE ForEachOutput(AddInputs(map, Head(outputs), inputs), Tail(outputs), inputs)

\* the body of plugins.forEach (lines 166-181) for one plugin
MapPlugin(map, plugin) ==
    LET inputs == AsArray(plugin.input)
        outputs == AsArray(plugin.output)
    IN  [input |-> ForEachInput(map.input, inputs, outputs),
         output |-> ForEachOutput(map.output, outputs, inputs)]

(***************************************************************************)
(* The inputs of createPluginExtensionMap                                  *)
(***************************************************************************)
MaxPlugins == 3

MaxExtList == 2

\* extensions plugins take: ".css" is also produced, ".scss" is only taken
InputExts == {".css", ".scss"}

\* extensions plugins produce: ".js" is only produced
OutputExts == {".css", ".js"}

\* `string | string[]`: one extension, or a list of 1..MaxExtList extensions in which
\* an extension may repeat
ExtValues(exts) ==
    {[isArray |-> FALSE, value |-> e] : e \in exts}
        \cup {[isArray |-> TRUE, list |-> l] :
                l \in UNION {[1..n -> exts] : n \in 1..MaxExtList}}

Plugins == [input : ExtValues(InputExts), output : ExtValues(OutputExts)]

Shape(v) == IF v.isArray THEN "array" ELSE "string"

\* createPluginExtensionMap(plugins) entered: line 165
InitExtMap ==
    /\ extMap = [input |-> <<>>, output |-> <<>>]
    /\ declared = {}
    /\ shapes = {}
    /\ pluginCount = 0
    /\ ResolverIdle
    /\ MountIdle
    /\ UrlIdle
    /\ LoadIdle

\* one iteration of plugins.forEach; the map in every state is the one returned for
\* the plugins iterated so far
MapNextPlugin ==
    /\ extMap # Undefined
    /\ pluginCount < MaxPlugins
    /\ \E plugin \in Plugins :
           /\ extMap' = MapPlugin(extMap, plugin)
           /\ declared' = declared \cup (Range(AsArray(plugin.input)) \X Range(AsArray(plugin.output)))
           /\ shapes' = shapes \cup {Shape(plugin.input), Shape(plugin.output)}
           /\ pluginCount' = pluginCount + 1
           /\ UNCHANGED <<resolverVars, mountVars, urlVars, loadVars>>

NextExtMap == MapNextPlugin

SpecExtMap == InitExtMap /\ [][NextExtMap]_vars

(***************************************************************************)
(* urlToFile (import-resolver.ts)                                          *)
(***************************************************************************)
BaseName(p) == IF Contains(p, "/") THEN Drop(p, LastIndexOf(p, "/")) ELSE p

\* getExt(url): the base extension (".css" of "a.m.css") and the expanded extension
\* (".m.css" of "a.m.css", ".css" of "a.css")
GetExt(url) ==
    LET base == BaseName(url)
    IN  [baseExt |-> ExtName(url),
         expandedExt |-> IF Contains(base, ".")
                             THEN Drop(base, FirstIndexOf(base, ".") - 1)
                         ELSE EmptyStr]

\* line 147: expandedExt || baseExt
LookupKey(url) ==
    LET e == GetExt(url)
    IN  IF Len(e.expandedExt) > 0 THEN e.expandedExt ELSE e.baseExt

\* replaceExt(url, ext): the URL with its extension replaced by ext
ReplaceExt(url, ext) == SubSeq(url, 1, Len(url) - Len(LookupKey(url))) \o ext

\* lines 123-139: the extension map of the loaded plugins
RECURSIVE MapPlugins(_, _)
MapPlugins(map, list) ==
    IF Len(list) = 0 THEN map
    ELSE MapPlugins(MapPlugin(map, Head(list)), Tail(list))

\* line 148
LocationAttempt(cwd, fromDisk, url, ext) == PosixJoin(<<cwd, fromDisk, ReplaceExt(url, ext)>>)

\* the attempt is recorded only when the file is missing
RECURSIVE ForExts_PushOnMiss(_, _, _, _, _, _)
ForExts_PushOnMiss(exts, cwd, fromDisk, url, disk, acc) ==
    IF Len(exts) = 0 THEN acc
    ELSE LET locationAttempt == LocationAttempt(cwd, fromDisk, url, Head(exts))
         IN  IF locationAttempt \in disk
                 THEN [acc EXCEPT !.locOnDisk = Str(locationAttempt)]
             ELSE ForExts_PushOnMiss(Tail(exts), cwd, fromDisk, url, disk,
                      [acc EXCEPT !.lookups = Append(acc.lookups, locationAttempt)])

\* lines 147-154: `for (const ext of ...)`, left by `break` at the first file that exists
RECURSIVE ForExts(_, _, _, _, _, _)
ForExts(exts, cwd, fromDisk, url, disk, acc) ==
    IF Len(exts) = 0 THEN acc
    ELSE LET locationAttempt == LocationAttempt(cwd, fromDisk, url, Head(exts))
             pushed == [acc EXCEPT !.lookups = Append(acc.lookups, locationAttempt)]
         IN  IF locationAttempt \in disk
                 THEN [pushed EXCEPT !.locOnDisk = Str(locationAttempt)]
             ELSE ForExts(Tail(exts), cwd, fromDisk, url, disk, pushed)

\* lines 146-155: `for (const [fromDisk] of possibleDirs)`, which runs to the last entry
RECURSIVE ForDirs(_, _, _, _, _, _)
ForDirs(dirs, exts, cwd, url, disk, acc) ==
    IF Len(dirs) = 0 THEN acc
    ELSE ForDirs(Tail(dirs), exts, cwd, url, disk,
                 ForExts(exts, cwd, Head(dirs).fromDisk, url, disk, acc))

\* lines 141-157. `for (const ext of undefined)` throws a TypeError.
UrlToFile(url, cwd, mounts, pluginList, disk) ==
    LET map == MapPlugins([input |-> <<>>, output |-> <<>>], pluginList)
        key == LookupKey(url)
        possibleDirs == SelectSeq(mounts, LAMBDA m : StartsWith(url, m.toUrl))
        start == [kind |-> "returned", locOnDisk |-> Undefined, lookups |-> <<>>]
    IN  IF Len(possibleDirs) = 0 THEN start
        ELSE IF key \notin DOMAIN map.output THEN Threw("TypeError")
        ELSE ForDirs(possibleDirs, map.output[key], cwd, url, disk, start)

(***************************************************************************)
(* The inputs of urlToFile                                                 *)
(***************************************************************************)
MaxFiles == 2

\* "/d/a.css", "/d/a.js", "/d/a", "/a.css", "/d/a.m.css"
Urls ==
    {<<"/", "d", "/", "a", ".", "c", "s", "s">>,
     <<"/", "d", "/", "a", ".", "j", "s">>,
     <<"/", "d", "/", "a">>,
     <<"/", "a", ".", "c", "s", "s">>,
     <<"/", "d", "/", "a", ".", "m", ".", "c", "s", "s">>}

Css == <<".", "c", "s", "s">>

Scss == <<".", "s", "c", "s", "s">>

Js == <<".", "j", "s">>

Mount(fromDisk, toUrl) == [fromDisk |-> fromDisk, toUrl |-> toUrl]

\* Mount Tables as getMountedDirs returns them: no table, one mount, two mounts under
\* one URL prefix in either order, a mount at "/", and a mount of another URL prefix
MountTables ==
    {<<>>,
     <<Mount(<<"d", "/">>, <<"/", "d", "/">>)>>,
     <<Mount(<<"s", "/">>, <<"/", "d", "/">>), Mount(<<"d", "/">>, <<"/", "d", "/">>)>>,
     <<Mount(<<"d", "/">>, <<"/", "d", "/">>), Mount(<<"s", "/">>, <<"/", "d", "/">>)>>,
     <<Mount(<<"d", "/">>, <<"/">>)>>,
     <<Mount(<<"s", "/">>, <<"/", "x", "/">>)>>,
     <<Mount(<<"s", "/">>, <<"/", "x", "/">>), Mount(<<"d", "/">>, <<"/", "d", "/">>)>>}

StringExt(e) == [isArray |-> FALSE, value |-> e]

\* the plugins loadPlugins returned: none, one from ".scss" to ".css", and that one
\* with one from ".js" to ".js"
UrlPluginLists ==
    {<<>>,
     <<[input |-> StringExt(Scss), output |-> StringExt(Css)]>>,
     <<[input |-> StringExt(Scss), output |-> StringExt(Css)],
       [input |-> [isArray |-> TRUE, list |-> <<Js>>], output |-> StringExt(Js)]>>}

\* the files that may exist: "a" and "d/a", as ".css" and ".scss", in "/p/d" and "/p/s"
DiskFiles ==
    {ProcessCwd \o <<"/">> \o dir \o name \o ext :
        dir \in {<<"d", "/">>, <<"s", "/">>}, name \in {<<"a">>, <<"d", "/", "a">>}, ext \in {Css, Scss}}

Disks == {files \in SUBSET DiskFiles : Cardinality(files) <= MaxFiles}

\* urlToFile(url, {config, cwd}) entered
InitUrlToFile ==
    /\ urlCall \in [url : Urls, mounts : MountTables, plugins : UrlPluginLists, disk : Disks]
    /\ urlResult = Undefined
    /\ ResolverIdle
    /\ MountIdle
    /\ ExtIdle
    /\ LoadIdle

\* the call runs to its return or to the exception
CallUrlToFile ==
    /\ urlCall # Undefined
    /\ urlResult = Undefined
    /\ urlResult' = UrlToFile(urlCall.url, ProcessCwd, urlCall.mounts, urlCall.plugins,
                              urlCall.disk)
    /\ UNCHANGED <<urlCall, resolverVars, mountVars, extVars, loadVars>>

NextUrlToFile == CallUrlToFile

SpecUrlToFile == InitUrlToFile /\ [][NextUrlToFile]_vars

(***************************************************************************)
(* loadPlugins (plugins.ts)                                                *)
(***************************************************************************)
\* String.prototype.toLowerCase, on the letters the script ids are written in
ToLowerCase(s) ==
    [i \in 1..Len(s) |-> CASE s[i] = "J" -> "j" [] s[i] = "S" -> "s" [] OTHER -> s[i]]

\* String.prototype.trim
RECURSIVE Trim(_)
Trim(s) ==
    IF Len(s) > 0 /\ s[1] = " " THEN Trim(Tail(s))
    ELSE IF Len(s) > 0 /\ Last(s) = " " THEN Trim(SubSeq(s, 1, Len(s) - 1))
    ELSE s

\* s.replace(/^\./, '')
StripLeadingDot(s) == IF Len(s) > 0 /\ s[1] = "." THEN Tail(s) ELSE s

\* line 15: (ext) => `.${ext}`.replace(/^\./, '').trim()
NormalizeExt(ext) == Trim(StripLeadingDot(<<".">> \o ext))

MapExts(exts) == [i \in 1..Len(exts) |-> NormalizeExt(exts[i])]

\* parseScript(script), lines 11-17; extMatch is undefined for a script without ":"
ParseScript(target) ==
    LET parts == SplitOn(ToLowerCase(target), ":")
    IN  IF Len(parts) < 2 THEN Threw("TypeError")
        ELSE [kind |-> "parsed",
              scriptType |-> parts[1],
              extensions |-> Unique(MapExts(SplitOn(parts[2], ",")), <<>>)]

W_run == <<"r", "u", "n">>

W_build == <<"b", "u", "i", "l", "d">>

W_bundle == <<"b", "u", "n", "d", "l", "e">>

ArrayExt(exts) == [isArray |-> TRUE, list |-> exts]

\* what require(pluginLoc)(config) returns for the installed modules: "p" is a build
\* plugin with its own name, input and output, "q" a bundler without a name, "y" a
\* plugin of the old API with a defaultBuildScript, "z" a plugin with neither input nor
\* defaultBuildScript; any other module is not installed. A missing name is "".
Module(specifier) ==
    CASE specifier = "p" ->
             [name |-> "plugin-p", input |-> StringExt(<<".", "p">>), output |-> StringExt(<<".", "p">>),
              defaultBuildScript |-> Undefined]
      [] specifier = "q" ->
             [name |-> "", input |-> Undefined, output |-> Undefined,
              defaultBuildScript |-> Undefined]
      [] specifier = "y" ->
             [name |-> "plugin-y", input |-> Undefined, output |-> Undefined,
              defaultBuildScript |-> Str(<<"b", "u", "i", "l", "d", ":", "s", "v", ",", ".", "s", "v">>)]
      [] specifier = "z" ->
             [name |-> "plugin-z", input |-> Undefined, output |-> Undefined,
              defaultBuildScript |-> Undefined]
      [] OTHER -> Undefined

\* loadPluginFromScript, lines 32-39: a module that cannot be resolved gives undefined
LoadPluginFromScript(specifier) == Module(specifier)

\* scriptPlugins[pluginName]
HasScriptPlugin(table, pluginName) == \E i \in 1..Len(table) : table[i].name = pluginName

\* only the first extension of the script id gets the command
SetBuildCommands_FirstOnly(commands, exts, target, cmd) ==
    IF Len(exts) = 0 THEN commands
    ELSE [k \in DOMAIN commands \cup {Head(exts)} |->
             IF k = Head(exts) THEN [id |-> target, cmd |-> cmd] ELSE commands[k]]

\* lines 79-81: buildCommands[ext] = {id: target, cmd} for every extension
RECURSIVE SetBuildCommands(_, _, _, _)
SetBuildCommands(commands, exts, target, cmd) ==
    IF Len(exts) = 0 THEN commands
    ELSE SetBuildCommands(
             [k \in DOMAIN commands \cup {Head(exts)} |->
                 IF k = Head(exts) THEN [id |-> target, cmd |-> cmd] ELSE commands[k]],
             Tail(exts), target, cmd)

\* the locals of loadPlugins
LoadLocals ==
    [pc |-> loadPc, scriptPlugins |-> scriptPlugins, plugins |-> plugins,
     bundler |-> bundler, runCommands |-> runCommands, buildCommands |-> buildCommands,
     error |-> loadError]

\* handleError(msg): the message and process.exit(1)
Exit(st, what, name) ==
    [st EXCEPT !.pc = "exited", !.error = [kind |-> "exit", what |-> what, name |-> name]]

\* lines 58-84, `case 'build'`. Line 65 reads `loadPlugins[pluginName]`, a property of
\* the function loadPlugins and not of scriptPlugins: it is undefined, and destructuring
\* undefined throws a TypeError.
BuildScript(st, target, cmd, extensions) ==
    LET plugin == LoadPluginFromScript(cmd)
    IN  IF plugin # Undefined
            THEN IF HasScriptPlugin(st.scriptPlugins, cmd)
                     THEN [st EXCEPT !.pc = "threw", !.error = Threw("TypeError")]
                 ELSE [st EXCEPT !.scriptPlugins =
                          Append(@, [plugin EXCEPT !.name = cmd,
                                                   !.input = ArrayExt(extensions),
                                                   !.output = ArrayExt(extensions)])]
        ELSE [st EXCEPT !.buildCommands = SetBuildCommands(@, extensions, target, cmd)]

\* lines 85-97, `case 'bundle'`
BundleScript(st, cmd) ==
    LET loaded == LoadPluginFromScript(cmd)
    IN  IF loaded = Undefined
            THEN Exit([st EXCEPT !.bundler = Undefined], "bundle not loaded", cmd)
        ELSE [st EXCEPT !.bundler = IF loaded.name = "" THEN [loaded EXCEPT !.name = cmd]
                                    ELSE loaded]

\* lines 50-99: the callback of Object.entries(config.scripts).forEach
ScriptEntry(st, target, cmd) ==
    LET parsed == ParseScript(target)
    IN  IF parsed.kind # "parsed" THEN [st EXCEPT !.pc = "threw", !.error = parsed]
        ELSE CASE parsed.scriptType = W_run ->
                      [st EXCEPT !.runCommands = Append(@, [id |-> target, cmd |-> cmd])]
               [] parsed.scriptType = W_build ->
                      BuildScript(st, target, cmd, parsed.extensions)
               [] parsed.scriptType = W_bundle -> BundleScript(st, cmd)
               [] OTHER -> st

\* lines 118-134: the plugin of config.plugins is normalized and pushed. `name` in line
\* 129 is no variable of the module: it is the global of that name, which does not
\* exist under Node (ReferenceError) and is the empty string where a DOM global exists
NormalizePlugin(st, pluginName, plugin, globalName) ==
    IF plugin.defaultBuildScript = Undefined /\ plugin.input = Undefined
        THEN Exit(st, "missing input", pluginName)
    ELSE LET old == plugin.defaultBuildScript # Undefined /\ plugin.input = Undefined
             parsed == IF old THEN ParseScript(plugin.defaultBuildScript.value) ELSE Undefined
         IN  IF old /\ parsed.kind # "parsed"
                 THEN [st EXCEPT !.pc = "threw", !.error = parsed]
             ELSE IF globalName = "unbound"
                 THEN [st EXCEPT !.pc = "threw", !.error = Threw("ReferenceError")]
             ELSE LET withExts == IF old
                                      THEN [plugin EXCEPT !.input = ArrayExt(parsed.extensions),
                                                          !.output = ArrayExt(parsed.extensions)]
                                  ELSE plugin
                  IN  [st EXCEPT !.plugins = Append(@, [withExts EXCEPT !.name = pluginName])]

\* the scripts are looked up by the entry itself, which misses for a [name, options] pair
RefEntry_LookupByRef(st, ref, globalName) ==
    IF ~ref.isArray /\ HasScriptPlugin(st.scriptPlugins, ref.name)
        THEN Exit(st, "conflict", ref.name)
    ELSE IF Module(ref.name) = Undefined
        THEN [st EXCEPT !.pc = "threw", !.error = Threw("Error")]
    ELSE NormalizePlugin(st, ref.name, Module(ref.name), globalName)

\* lines 104-135: the callback of config.plugins.forEach; loadPluginFromConfig (lines
\* 41-44) throws when the module is not installed
RefEntry(st, ref, globalName) ==
    IF HasScriptPlugin(st.scriptPlugins, ref.name) THEN Exit(st, "conflict", ref.name)
    ELSE IF Module(ref.name) = Undefined
        THEN [st EXCEPT !.pc = "threw", !.error = Threw("Error")]
    ELSE NormalizePlugin(st, ref.name, Module(ref.name), globalName)

(***************************************************************************)
(* The inputs of loadPlugins                                               *)
(***************************************************************************)
MaxLoadScripts == 2

MaxRefs == 2

\* "build:js", "build:jsx,js", "build:.ts", "build:JS, js"
BuildTargets ==
    {<<"b", "u", "i", "l", "d", ":", "j", "s">>,
     <<"b", "u", "i", "l", "d", ":", "j", "s", "x", ",", "j", "s">>,
     <<"b", "u", "i", "l", "d", ":", ".", "t", "s">>,
     <<"b", "u", "i", "l", "d", ":", "J", "S", ",", " ", "j", "s">>}

\* "bundle:a", "bundle:b"
BundleTargets ==
    {<<"b", "u", "n", "d", "l", "e", ":", "a">>,
     <<"b", "u", "n", "d", "l", "e", ":", "b">>}

\* "run:x"
RunTargets == {<<"r", "u", "n", ":", "x">>}

\* the entries of config.scripts: build scripts naming the installed plugin "p" or the
\* shell command "m", bundle scripts naming the installed bundler "q" or "m", and a run
\* script
ScriptEntries ==
    [target : BuildTargets, cmd : {"p", "m"}]
        \cup [target : BundleTargets, cmd : {"q", "m"}]
        \cup [target : RunTargets, cmd : {"m"}]

\* config.scripts is an object: no script id occurs twice
ScriptLists ==
    {l \in UNION {[1..n -> ScriptEntries] : n \in 0..MaxLoadScripts} :
        \A i, j \in 1..Len(l) : l[i].target = l[j].target => i = j}

\* the entries of config.plugins: a bare name, or a [name, options] pair
PluginRefs ==
    [isArray : {FALSE}, name : {"p", "y", "z", "m"}] \cup [isArray : {TRUE}, name : {"p"}]

RefLists == UNION {[1..n -> PluginRefs] : n \in 0..MaxRefs}

\* loadPlugins(config) entered: lines 28-30 and 48-49
InitLoad ==
    /\ loadConfig \in [scripts : ScriptLists, plugins : RefLists,
                       globalName : {"unbound", "empty"}]
    /\ loadPc = "scripts"
    /\ scriptIndex = 0
    /\ refIndex = 0
    /\ scriptPlugins = <<>>
    /\ plugins = <<>>
    /\ bundler = Undefined
    /\ runCommands = <<>>
    /\ buildCommands = <<>>
    /\ loadError = Undefined
    /\ ResolverIdle
    /\ MountIdle
    /\ ExtIdle
    /\ UrlIdle

SetLocals(st) ==
    /\ loadPc' = st.pc
    /\ scriptPlugins' = st.scriptPlugins
    /\ plugins' = st.plugins
    /\ bundler' = st.bundler
    /\ runCommands' = st.runCommands
    /\ buildCommands' = st.buildCommands
    /\ loadError' = st.error

\* one iteration of Object.entries(config.scripts).forEach
LoadScript ==
    /\ loadPc = "scripts"
    /\ scriptIndex < Len(loadConfig.scripts)
    /\ scriptIndex' = scriptIndex + 1
    /\ SetLocals(ScriptEntry(LoadLocals, loadConfig.scripts[scriptIndex + 1].target,
                             loadConfig.scripts[scriptIndex + 1].cmd))
    /\ UNCHANGED <<loadConfig, refIndex, resolverVars, mountVars, extVars, urlVars>>

\* line 101: plugins.push(...Object.values(scriptPlugins))
LoadPush ==
    /\ loadPc = "scripts"
    /\ scriptIndex = Len(loadConfig.scripts)
    /\ loadPc' = "plugins"
    /\ plugins' = plugins \o scriptPlugins
    /\ UNCHANGED <<loadConfig, scriptIndex, refIndex, scriptPlugins, bundler, runCommands,
                   buildCommands, loadError, resolverVars, mountVars, extVars, urlVars>>

\* one iteration of config.plugins.forEach
LoadRef ==
    /\ loadPc = "plugins"
    /\ refIndex < Len(loadConfig.plugins)
    /\ refIndex' = refIndex + 1
    /\ SetLocals(RefEntry(LoadLocals, loadConfig.plugins[refIndex + 1],
                          loadConfig.globalName))
    /\ UNCHANGED <<loadConfig, scriptIndex, resolverVars, mountVars, extVars, urlVars>>

\* lines 137-142
LoadReturn ==
    /\ loadPc = "plugins"
    /\ refIndex = Len(loadConfig.plugins)
    /\ loadPc' = "returned"
    /\ UNCHANGED <<loadConfig, scriptIndex, refIndex, scriptPlugins, plugins, bundler,
                   runCommands, buildCommands, loadError, resolverVars, mountVars, extVars,
                   urlVars>>

NextLoad == LoadScript \/ LoadPush \/ LoadRef \/ LoadReturn

SpecLoad == InitLoad /\ [][NextLoad]_vars

(***************************************************************************)
(* Claims about getMountedDirs (checked under SpecMount)                   *)
(***************************************************************************)
\* The command line as the format "mount dir [--to /PATH]" reads it: the values given
\* to --to ("--to value" or "--to=value") and the other arguments that are not
\* options, in order.
RECURSIVE ReadArgs(_, _, _, _)
ReadArgs(tokens, i, dirs, tos) ==
    IF i > Len(tokens) THEN [dirs |-> dirs, tos |-> tos]
    ELSE LET t == tokens[i]
         IN  IF StartsWith(t, W_to \o <<"=">>)
                 THEN ReadArgs(tokens, i + 1, dirs, Append(tos, Drop(t, 5)))
             ELSE IF t = W_to /\ i < Len(tokens) /\ ~StartsWith(tokens[i + 1], <<"-">>)
                 THEN ReadArgs(tokens, i + 2, dirs, Append(tos, tokens[i + 1]))
             ELSE IF StartsWith(t, <<"-">>) \/ t = EmptyStr
                 THEN ReadArgs(tokens, i + 1, dirs, tos)
             ELSE ReadArgs(tokens, i + 1, Append(dirs, t), tos)

IsMountId(id) == StartsWith(id, W_mount \o <<":">>)

ScriptArgs == ReadArgs(Tail(SplitWhitespace(script.cmd)), 1, <<>>, <<>>)

\* the mount scripts iterated so far
MountIdsSeen == {id \in seenIds : IsMountId(id)}

\* C7: a mount script that passes validation maps its one positional source
\* directory, normalised with one trailing "/", to the normalised URL path with one
\* trailing "/": the --to value if given, "/" + sourceDir otherwise (one such script
\* alone yields exactly that table), and scripts that are not mount scripts add no
\* entry.
C7_MountTable ==
    /\ (mountPc = "loop" /\ script # Undefined /\ IsMountId(script.id))
           => LET a == ScriptArgs
                  src == a.dirs[1]
                  url == IF Len(a.tos) > 0 THEN a.tos[1] ELSE <<"/">> \o src
                  entry == [fromDisk |-> PosixNormalize(src \o <<"/">>),
                            toUrl |-> PosixNormalize(url \o <<"/">>)]
              IN  /\ Len(a.dirs) = 1
                  /\ \E i \in 1..Len(mountedDirs) : mountedDirs[i] = entry
                  /\ MountIdsSeen = {script.id} => mountedDirs = <<entry>>
    /\ MountIdsSeen = {} => mountedDirs = <<>>

\* C8: a mount script whose first token is not "mount", that has no or several
\* positional arguments, or whose --to value does not start with "/", ends
\* getMountedDirs in a fatal error that names the script id; no table is returned.
C8_FatalError ==
    /\ (script # Undefined /\ IsMountId(script.id))
           => LET a == ScriptArgs
                  invalid == \/ SplitWhitespace(script.cmd)[1] # W_mount
                             \/ Len(a.dirs) # 1
                             \/ \E i \in 1..Len(a.tos) : ~StartsWith(a.tos[i], <<"/">>)
              IN  invalid => (mountPc = "exited" /\ mountError.id = script.id)
    /\ mountPc = "exited" => mountResult = Undefined

(***************************************************************************)
(* Claims about createPluginExtensionMap (checked under SpecExtMap)        *)
(***************************************************************************)
Has(map, key, ext) == key \in DOMAIN map /\ \E i \in 1..Len(map[key]) : map[key][i] = ext

\* C9: for every plugin, every input extension i and every output extension o of it:
\* o is in map.input[i] and i is in map.output[o], whether input and output are
\* strings or lists and whatever the order of the plugins.
C9_CrossProduct ==
    \A p \in declared : Has(extMap.input, p[1], p[2]) /\ Has(extMap.output, p[2], p[1])

\* two plugins, strings and lists among their inputs and outputs, ".scss" going to
\* ".css" and to ".js"
C9_Witness ==
    /\ pluginCount = 2
    /\ shapes = {"string", "array"}
    /\ {<<".scss", ".css">>, <<".scss", ".js">>} \subseteq declared
    /\ Has(extMap.input, ".scss", ".css")
    /\ Has(extMap.input, ".scss", ".js")

NoDuplicates(list) == \A i, j \in 1..Len(list) : list[i] = list[j] => i = j

\* C10: every output extension o of any plugin is in map.output[o], also when no
\* plugin has o as input and output, and no list of the map holds an extension twice.
C10_IdentityAndUnique ==
    /\ \A p \in declared : Has(extMap.output, p[2], p[2])
    /\ \A k \in DOMAIN extMap.input : NoDuplicates(extMap.input[k])
    /\ \A k \in DOMAIN extMap.output : NoDuplicates(extMap.output[k])

\* ".js" is produced from ".scss" only, by a plugin that lists it twice
C10_Witness ==
    /\ declared = {<<".scss", ".js">>}
    /\ "array" \in shapes
    /\ extMap.output = [k \in {".js"} |-> <<".js", ".scss">>]

(***************************************************************************)
(* Claims about urlToFile (checked under SpecUrlToFile)                    *)
(***************************************************************************)
UrlReturned == urlResult # Undefined /\ urlResult.kind = "returned"

UrlOutput == MapPlugins([input |-> <<>>, output |-> <<>>], urlCall.plugins).output

KeyIsMapped == LookupKey(urlCall.url) \in DOMAIN UrlOutput

\* output[lookupKey], or [lookupKey] when the key is unmapped
CandidateExts ==
    IF KeyIsMapped THEN UrlOutput[LookupKey(urlCall.url)] ELSE <<LookupKey(urlCall.url)>>

MatchingMounts == SelectSeq(urlCall.mounts, LAMBDA m : StartsWith(urlCall.url, m.toUrl))

\* the candidate path of the j-th extension under the i-th matching mount
Candidate(i, j) ==
    LocationAttempt(ProcessCwd, MatchingMounts[i].fromDisk, urlCall.url, CandidateExts[j])

CandidateIndexes == (1..Len(MatchingMounts)) \X (1..Len(CandidateExts))

Earlier(a, b) == a[1] < b[1] \/ (a[1] = b[1] /\ a[2] < b[2])

OnDisk(c) == Candidate(c[1], c[2]) \in urlCall.disk

Looked(path) == \E k \in 1..Len(urlResult.lookups) : urlResult.lookups[k] = path

\* C11: locOnDisk is the first candidate that exists, candidates taken mount by mount
\* in table order and, within a mount, in the order of output[lookupKey]; an existing
\* candidate of a later mount is never returned in place of one of an earlier mount.
C11_FirstExisting ==
    UrlReturned =>
        \A c \in CandidateIndexes :
            (OnDisk(c) /\ \A b \in CandidateIndexes : Earlier(b, c) => ~OnDisk(b))
                => urlResult.locOnDisk = Str(Candidate(c[1], c[2]))

\* the file of the URL in the directory of mount m, with extension ext
MountedFile(m, ext) ==
    PosixJoin(<<ProcessCwd, m.fromDisk, ReplaceExt(Drop(urlCall.url, Len(m.toUrl)), ext)>>)

MountedSources ==
    {MountedFile(MatchingMounts[i], UrlOutput[LookupKey(urlCall.url)][j]) :
        i \in 1..Len(MatchingMounts),
        j \in 1..(IF KeyIsMapped THEN Len(UrlOutput[LookupKey(urlCall.url)]) ELSE 0)}

\* C12: when the URL lies under a mount's URL prefix and the file exists in the mounted
\* directory with its extension replaced by a member of output[ext], that file is
\* returned as locOnDisk ("/d/a.css" with mount d/ -> /d/, output[".css"] =
\* [".css", ".scss"] and only a.scss in the directory returns that a.scss).
C12_MountedSource ==
    (urlResult # Undefined /\ MountedSources \cap urlCall.disk # {})
        => /\ UrlReturned
           /\ urlResult.locOnDisk # Undefined
           /\ urlResult.locOnDisk.value \in MountedSources \cap urlCall.disk

\* C13: lookups holds the candidate of every extension of output[lookupKey] for the
\* matching mounts, whichever candidate exists; it holds no path of a mount whose URL
\* prefix is not a prefix of the URL; and locOnDisk, when present, is in lookups.
C13_Lookups ==
    UrlReturned =>
        /\ KeyIsMapped => \A c \in CandidateIndexes : Looked(Candidate(c[1], c[2]))
        /\ \A k \in 1..Len(urlResult.lookups) :
               \E c \in CandidateIndexes : urlResult.lookups[k] = Candidate(c[1], c[2])
        /\ urlResult.locOnDisk # Undefined => Looked(urlResult.locOnDisk.value)

\* C13 as amended: lookups holds, for every matching mount, the candidate of every
\* extension of output[lookupKey] that no existing candidate of that mount precedes;
\* no path of a non-matching mount; and locOnDisk, when present, is in lookups.
C13_LookupsUntilHit ==
    UrlReturned =>
        /\ \A c \in CandidateIndexes :
               (\A j \in 1..(c[2] - 1) : ~OnDisk(<<c[1], j>>)) => Looked(Candidate(c[1], c[2]))
        /\ \A k \in 1..Len(urlResult.lookups) :
               \E c \in CandidateIndexes : urlResult.lookups[k] = Candidate(c[1], c[2])
        /\ urlResult.locOnDisk # Undefined => Looked(urlResult.locOnDisk.value)

\* "/d/a.css" with mounts s/ -> /x/ and d/ -> /d/, the ".scss" to ".css" plugin and only
\* the ".scss" candidate on disk: both candidates of d/ are recorded, none of s/
C13_Witness ==
    /\ UrlReturned
    /\ urlCall.url = <<"/", "d", "/", "a", ".", "c", "s", "s">>
    /\ urlCall.mounts = <<Mount(<<"s", "/">>, <<"/", "x", "/">>), Mount(<<"d", "/">>, <<"/", "d", "/">>)>>
    /\ urlCall.disk = {<<"/", "p", "/", "d", "/", "d", "/", "a", ".", "s", "c", "s", "s">>}
    /\ urlResult.locOnDisk = Str(<<"/", "p", "/", "d", "/", "d", "/", "a", ".", "s", "c", "s", "s">>)
    /\ urlResult.lookups = <<<<"/", "p", "/", "d", "/", "d", "/", "a", ".", "c", "s", "s">>, <<"/", "p", "/", "d", "/", "d", "/", "a", ".", "s", "c", "s", "s">>>>

\* C16: a lookup miss never raises: an unmapped lookup key falls back to [lookupKey],
\* and when no candidate exists the call returns with locOnDisk absent and the list of
\* attempted paths.
C16_MissIsNotAnError ==
    urlResult # Undefined =>
        /\ UrlReturned
        /\ (\A c \in CandidateIndexes : ~OnDisk(c))
               => /\ urlResult.locOnDisk = Undefined
                  /\ \A c \in CandidateIndexes : Looked(Candidate(c[1], c[2]))

(***************************************************************************)
(* Claims about loadPlugins (checked under SpecLoad)                       *)
(***************************************************************************)
ScriptTypeOf(i) == ParseScript(loadConfig.scripts[i].target).scriptType

ScriptExts(i) == Range(ParseScript(loadConfig.scripts[i].target).extensions)

Loads(i) == Module(loadConfig.scripts[i].cmd) # Undefined

BundleScripts == {i \in 1..Len(loadConfig.scripts) : ScriptTypeOf(i) = W_bundle}

\* C14: at most one bundler: with more than one bundle:* script loadPlugins does not
\* return normally with one of them chosen, and a bundle:* script whose module fails to
\* load is fatal.
C14_OneBundler ==
    /\ loadPc = "returned" => Cardinality(BundleScripts) <= 1
    /\ \A i \in BundleScripts :
           (i <= scriptIndex /\ ~Loads(i)) => loadPc = "exited" /\ scriptIndex = i

ScriptPluginNames == {scriptPlugins[i].name : i \in 1..Len(scriptPlugins)}

Colliding(i) == loadConfig.plugins[i].name \in ScriptPluginNames

\* C15: a name of config.plugins that is the name of a plugin registered through a
\* build:* script is fatal: the entry, bare name or [name, options] pair, ends the run
\* with the error naming it, and loadPlugins never returns a plugin list with both.
C15_Conflict ==
    /\ \A i \in 1..refIndex :
           Colliding(i) => /\ i = refIndex
                           /\ loadPc = "exited"
                           /\ loadError = [kind |-> "exit", what |-> "conflict",
                                           name |-> loadConfig.plugins[i].name]
    /\ loadPc = "returned" => \A i \in 1..Len(loadConfig.plugins) : ~Colliding(i)
    /\ \A i, j \in 1..Len(plugins) :
           (plugins[i].name \in ScriptPluginNames /\ plugins[i].name = plugins[j].name)
               => i = j

\* the second entry of config.plugins is the pair ["p", options], "p" is registered by a
\* build script, and the entry before it was loaded
C15_Witness ==
    /\ loadPc = "exited"
    /\ refIndex = 2
    /\ loadConfig.plugins[2] = [isArray |-> TRUE, name |-> "p"]
    /\ Len(plugins) = 2
    /\ loadError.what = "conflict"

\* the build scripts iterated so far that name the installed plugin n
BuildScriptsOf(n) ==
    {i \in 1..scriptIndex : ScriptTypeOf(i) = W_build /\ loadConfig.scripts[i].cmd = n /\ Loads(i)}

DescriptorsOf(n) == {i \in 1..Len(scriptPlugins) : scriptPlugins[i].name = n}

\* C17: a plugin named by several build:<extensions> scripts gets exactly one descriptor,
\* whose input and output are each the union of the extensions of all those script ids;
\* the extensions of a second or later script are not lost.
C17_UnionOfExtensions ==
    \A n \in {"p"} :
        (Cardinality(BuildScriptsOf(n)) >= 2 /\ loadPc # "exited")
            => /\ loadPc # "threw"
               /\ Cardinality(DescriptorsOf(n)) = 1
               /\ \A d \in DescriptorsOf(n) :
                      /\ Range(scriptPlugins[d].input.list)
                             = UNION {ScriptExts(i) : i \in BuildScriptsOf(n)}
                      /\ Range(scriptPlugins[d].output.list)
                             = UNION {ScriptExts(i) : i \in BuildScriptsOf(n)}

RawBuild(i) == ScriptTypeOf(i) = W_build /\ ~Loads(i)

\* C18: a build:<extensions> script whose module cannot be loaded does not fail and
\* registers no plugin; buildCommands holds {id: script id, cmd: command} for each
\* extension of the script id (until a later such script names the extension); a script
\* whose module loads adds no buildCommands entry.
C18_RawCommand ==
    /\ \A i \in 1..scriptIndex :
           RawBuild(i) =>
               /\ loadConfig.scripts[i].cmd \notin ScriptPluginNames
               /\ \A ext \in ScriptExts(i) :
                      /\ ext \in DOMAIN buildCommands
                      /\ \/ buildCommands[ext] = [id |-> loadConfig.scripts[i].target,
                                                  cmd |-> loadConfig.scripts[i].cmd]
                         \/ \E j \in (i + 1)..scriptIndex : RawBuild(j) /\ ext \in ScriptExts(j)
    /\ \A i \in 1..scriptIndex :
           (ScriptTypeOf(i) = W_build /\ Loads(i)) =>
               \A ext \in DOMAIN buildCommands :
                   buildCommands[ext].id # loadConfig.scripts[i].target
    /\ (scriptIndex >= 1 /\ refIndex = 0 /\ RawBuild(scriptIndex))
           => loadPc \in {"scripts", "plugins", "returned"}

\* "build:jsx,js" names a command that is no module: both extensions hold the command,
\* no plugin is registered and loadPlugins returns
C18_Witness ==
    /\ loadPc = "returned"
    /\ loadConfig.scripts = <<[target |-> <<"b", "u", "i", "l", "d", ":", "j", "s", "x", ",", "j", "s">>, cmd |-> "m"]>>
    /\ plugins = <<>>
    /\ DOMAIN buildCommands = {<<"j", "s", "x">>, <<"j", "s">>}
    /\ \A ext \in DOMAIN buildCommands :
           buildCommands[ext] = [id |-> <<"b", "u", "i", "l", "d", ":", "j", "s", "x", ",", "j", "s">>, cmd |-> "m"]

\* the descriptors whose input and output come from a script id: those of the build
\* scripts, and those of the plugins with a defaultBuildScript
FromScriptId(d) == d.name \in ScriptPluginNames \cup {"y"}

Descriptors == Range(scriptPlugins) \cup Range(plugins)

DotPrefixedSet(exts) ==
    /\ Len(exts) > 0
    /\ \A i \in 1..Len(exts) : Len(exts[i]) > 0 /\ exts[i][1] = "."
    /\ \A i, j \in 1..Len(exts) : exts[i] = exts[j] => i = j

\* C19: every extension derived from a script id and stored in a descriptor's input or
\* output is dot-prefixed ("build:js,jsx" gives ".js" and ".jsx"), and each such list is
\* non-empty and without duplicates.
C19_DotPrefixed ==
    \A d \in Descriptors :
        FromScriptId(d) => DotPrefixedSet(d.input.list) /\ DotPrefixedSet(d.output.list)

====
